---- MODULE Spec2Model ----
(***************************************************************************)
(* GetTimeSinceProcessStart (src/GetTimeSinceProcessStart.h): one function *)
(* with three platform strategies chosen at build time.  The model keeps   *)
(* the operating system's answers (files under /proc, FILETIME values,     *)
(* timeval values, the status of each query) as environment state, and     *)
(* steps through one call query by query.                                  *)
(*                                                                         *)
(* 64-bit integers are sequences of 15-bit limbs, least significant first, *)
(* without leading zero limbs (<<>> is 0).  A C double is an IEEE 754      *)
(* binary64 value: a sign and either m * 2^e with m a 53-bit integer (less *)
(* for a subnormal), an infinity, or a NaN; every operation rounds to      *)
(* nearest, ties to even.  Text is a sequence of one-character strings.    *)
(***************************************************************************)
EXTENDS Integers, Sequences, FiniteSets, TLC

\* ------------------------------------------------------------------ bounds

\* Calls of GetTimeSinceProcessStart made by the process in one behaviour.
MaxCalls == 2

\* ------------------------------------------------------- unsigned integers

LimbBits == 15

LimbBase == 2^LimbBits

Abs(n) == IF n < 0 THEN -n ELSE n

\* Limb i of a; the limbs beyond the most significant one are 0.
Limb(a, i) == IF i >= 1 /\ i <= Len(a) THEN a[i] ELSE 0

Max(S) == CHOOSE i \in S : \A j \in S : j <= i

\* a without its leading zero limbs.
BigNorm(a) ==
    LET nz == {i \in 1..Len(a) : a[i] # 0}
    IN  IF nz = {} THEN <<>> ELSE SubSeq(a, 1, Max(nz))

\* The integer n >= 0.
RECURSIVE Big(_)
Big(n) == IF n = 0 THEN <<>> ELSE <<n % LimbBase>> \o Big(n \div LimbBase)

\* -1, 0 or 1 as a < b, a = b or a > b.
BigCmp(a, b) ==
    IF Len(a) # Len(b) THEN (IF Len(a) < Len(b) THEN -1 ELSE 1)
    ELSE LET diff == {i \in 1..Len(a) : a[i] # b[i]}
         IN  IF diff = {} THEN 0
             ELSE IF a[Max(diff)] < b[Max(diff)] THEN -1 ELSE 1

\* a + b: the carry into limb i comes from the nearest lower limb whose sum
\* is not LimbBase - 1.
BigAdd(a, b) ==
    LET n == IF Len(a) > Len(b) THEN Len(a) ELSE Len(b)
        sum(i) == Limb(a, i) + Limb(b, i)
        carry(i) ==
            LET gen == {j \in 1..(i - 1) : sum(j) # LimbBase - 1}
            IN  IF gen # {} /\ sum(Max(gen)) >= LimbBase THEN 1 ELSE 0
    IN  [i \in 1..n |-> (sum(i) + carry(i)) % LimbBase]
        \o (IF carry(n + 1) = 1 THEN <<1>> ELSE <<>>)

\* a - b, for a >= b: the borrow from limb i goes to the nearest lower limb
\* whose difference is not 0.
BigSub(a, b) ==
    LET dif(i) == Limb(a, i) - Limb(b, i)
        borrow(i) ==
            LET gen == {j \in 1..(i - 1) : dif(j) # 0}
            IN  IF gen # {} /\ dif(Max(gen)) < 0 THEN 1 ELSE 0
    IN  BigNorm([i \in 1..Len(a) |->
                    (dif(i) - borrow(i) + LimbBase) % LimbBase])

\* a * k, for 0 <= k < LimbBase.
BigMulSmall(a, k) ==
    IF k = 0 \/ a = <<>> THEN <<>>
    ELSE BigNorm(BigAdd([i \in 1..Len(a) |-> (a[i] * k) % LimbBase],
                        <<0>> \o [i \in 1..Len(a) |-> (a[i] * k) \div LimbBase]))

\* a * LimbBase^n.
BigShiftLimbs(a, n) == IF a = <<>> THEN <<>> ELSE [i \in 1..n |-> 0] \o a

\* The sum of a * b[j] * LimbBase^(j - 1) for j in i..Len(b).
RECURSIVE BigMulFrom(_, _, _)
BigMulFrom(a, b, i) ==
    IF i > Len(b) THEN <<>>
    ELSE BigAdd(BigMulSmall(a, b[i]), BigShiftLimbs(BigMulFrom(a, b, i + 1), 1))

BigMul(a, b) ==
    IF Len(a) >= Len(b) THEN BigMulFrom(a, b, 1) ELSE BigMulFrom(b, a, 1)

\* a * 2^k.
BigShl(a, k) ==
    LET s == k % LimbBits
    IN  BigShiftLimbs(
            BigNorm([i \in 1..(Len(a) + 1) |->
                        ((Limb(a, i) * 2^s) % LimbBase)
                        + (Limb(a, i - 1) \div 2^(LimbBits - s))]),
            k \div LimbBits)

\* a \div 2^k.
BigShr(a, k) ==
    IF k \div LimbBits >= Len(a) THEN <<>>
    ELSE LET top == SubSeq(a, (k \div LimbBits) + 1, Len(a))
             s == k % LimbBits
         IN  BigNorm([i \in 1..Len(top) |->
                         (top[i] \div 2^s)
                         + ((Limb(top, i + 1) % 2^s) * 2^(LimbBits - s))])

\* a % 2^k.
BigLowBits(a, k) == BigSub(a, BigShl(BigShr(a, k), k))

RECURSIVE BitLenSmall(_)
BitLenSmall(n) == IF n = 0 THEN 0 ELSE 1 + BitLenSmall(n \div 2)

\* The number of bits of a: 0 for 0.
BigBitLen(a) ==
    IF a = <<>> THEN 0 ELSE (Len(a) - 1) * LimbBits + BitLenSmall(a[Len(a)])

BigIsOdd(a) == a # <<>> /\ a[1] % 2 = 1

\* The largest d in lo..hi with b * d <= r.
RECURSIVE QuotDigit(_, _, _, _)
QuotDigit(r, b, lo, hi) ==
    IF lo = hi THEN lo
    ELSE LET mid == (lo + hi + 1) \div 2
         IN  IF BigCmp(BigMulSmall(b, mid), r) <= 0
               THEN QuotDigit(r, b, mid, hi)
               ELSE QuotDigit(r, b, lo, mid - 1)

\* Long division of a by b, one limb of a per step from the most significant;
\* i limbs are left, q is the quotient so far and r < b the remainder so far.
RECURSIVE BigDivLimbs(_, _, _, _, _)
BigDivLimbs(a, b, i, q, r) ==
    IF i = 0 THEN [quot |-> BigNorm(q), rem |-> r]
    ELSE LET r2 == BigNorm(<<a[i]>> \o r)
         IN  IF BigCmp(r2, b) < 0
               THEN BigDivLimbs(a, b, i - 1, <<0>> \o q, r2)
               ELSE LET d == QuotDigit(r2, b, 1, LimbBase - 1)
                    IN  BigDivLimbs(a, b, i - 1, <<d>> \o q,
                                    BigSub(r2, BigMulSmall(b, d)))

\* a \div b and a % b, for b > 0; the top Len(b) - 1 limbs of a are less than
\* b, so the division starts below them.
BigDivMod(a, b) ==
    IF Len(a) < Len(b) THEN [quot |-> <<>>, rem |-> a]
    ELSE BigDivLimbs(a, b, Len(a) - Len(b) + 1, <<>>,
                     SubSeq(a, Len(a) - Len(b) + 2, Len(a)))

\* a^n, by squaring.
RECURSIVE BigPow(_, _)
BigPow(a, n) ==
    IF n = 0 THEN <<1>>
    ELSE LET h == BigPow(a, n \div 2)
         IN  IF n % 2 = 0 THEN BigMul(h, h) ELSE BigMul(BigMul(h, h), a)

\* 2^64 - 1, the largest uint64_t.
UInt64Bits == 64

UInt64Max == BigSub(BigShl(<<1>>, UInt64Bits), <<1>>)

\* ----------------------------------------------------------------- double

\* Bits of a double's significand (DBL_MANT_DIG).
MantissaBits == 53

\* The exponent of the least significant bit of the smallest subnormal.
MinExp == -1074

\* The exponent of the least significant bit of the largest finite double.
MaxExp == 971

DFinite(neg, m, e) == [kind |-> "finite", neg |-> neg, m |-> m, e |-> e]

DZero(neg) == DFinite(neg, <<>>, 0)

DInf(neg) == [kind |-> "inf", neg |-> neg, m |-> <<>>, e |-> 0]

DNaN == [kind |-> "nan", neg |-> FALSE, m |-> <<>>, e |-> 0]

\* 0.0
Zero == DZero(FALSE)

IsZero(a) == a.kind = "finite" /\ a.m = <<>>

\* (-1)^neg * m * 2^e for an integer m of at most MantissaBits bits, as a
\* double.
PackDouble(neg, m, e) ==
    IF m = <<>> THEN DZero(neg)
    ELSE IF e > MaxExp THEN DInf(neg)
    ELSE DFinite(neg, m, e)

\* (-1)^neg * m * 2^e for an integer m of at most MantissaBits + 1 bits whose
\* last bit is 0 when it has that many.
Renormalize(neg, m, e) ==
    IF BigBitLen(m) > MantissaBits THEN PackDouble(neg, BigShr(m, 1), e + 1)
                                   ELSE PackDouble(neg, m, e)

\* The quotient d.quot with remainder d.rem by den, rounded to the nearest
\* integer, ties to even.
RoundQuotient(d, den) ==
    LET half == BigCmp(BigAdd(d.rem, d.rem), den)
    IN  IF half > 0 \/ (half = 0 /\ BigIsOdd(d.quot))
          THEN BigAdd(d.quot, <<1>>) ELSE d.quot

\* (-1)^neg * (num / den) * 2^e, the quotient rounded to an integer.
RoundDivision(neg, num, den, e) ==
    Renormalize(neg, RoundQuotient(BigDivMod(num, den), den), e)

\* The double nearest to (-1)^neg * p / q, with the exponent e of its last
\* bit.
RoundAtExponent(neg, p, q, e) ==
    RoundDivision(neg, IF e < 0 THEN BigShl(p, -e) ELSE p,
                       IF e > 0 THEN BigShl(q, e) ELSE q, e)

\* The double nearest to (-1)^neg * p / q, where 2^log <= p / q < 2^(log+1).
RoundAtLog(neg, p, q, log) ==
    IF log > MaxExp + MantissaBits THEN DInf(neg)
    ELSE IF log < MinExp - 1 THEN DZero(neg)
    ELSE RoundAtExponent(neg, p, q,
                         IF log - (MantissaBits - 1) < MinExp
                           THEN MinExp ELSE log - (MantissaBits - 1))

\* The integer log with 2^log <= p / q < 2^(log + 1), for p > 0 and q > 0;
\* k is the difference of their bit lengths.
FloorLog2(p, q, k) ==
    IF k >= 0 THEN (IF BigCmp(p, BigShl(q, k)) >= 0 THEN k ELSE k - 1)
              ELSE (IF BigCmp(BigShl(p, -k), q) >= 0 THEN k ELSE k - 1)

\* The double nearest to (-1)^neg * p / q (ties to even), for q > 0.
RoundRatio(neg, p, q) ==
    IF p = <<>> THEN DZero(neg)
    ELSE RoundAtLog(neg, p, q, FloorLog2(p, q, BigBitLen(p) - BigBitLen(q)))

\* (double)n for an unsigned integer n.
DFromBig(n) == RoundRatio(FALSE, n, <<1>>)

\* (double)n for a signed integer n.
ToDouble(n) == RoundRatio(n < 0, Big(Abs(n)), <<1>>)

DNeg(a) == IF a.kind = "nan" THEN a ELSE [a EXCEPT !.neg = ~a.neg]

\* (-1)^neg * m * 2^e rounded to a double.
RoundScaled(neg, m, e) ==
    RoundRatio(neg, IF e >= 0 THEN BigShl(m, e) ELSE m,
                    IF e >= 0 THEN <<1>> ELSE BigShl(<<1>>, -e))

\* a / b on doubles.
DDiv(a, b) ==
    IF a.kind = "nan" \/ b.kind = "nan" THEN DNaN
    ELSE IF a.kind = "inf"
      THEN IF b.kind = "inf" THEN DNaN ELSE DInf(a.neg # b.neg)
    ELSE IF b.kind = "inf" THEN DZero(a.neg # b.neg)
    ELSE IF IsZero(b) THEN IF IsZero(a) THEN DNaN ELSE DInf(a.neg # b.neg)
    ELSE IF IsZero(a) THEN DZero(a.neg # b.neg)
    ELSE RoundRatio(a.neg # b.neg,
                    IF a.e >= b.e THEN BigShl(a.m, a.e - b.e) ELSE a.m,
                    IF a.e >= b.e THEN b.m ELSE BigShl(b.m, b.e - a.e))

\* The sum of the integers of magnitudes x and y, negative when xneg, yneg,
\* times 2^e, rounded to a double; c compares x with y.
AddAligned(xneg, x, yneg, y, c, e) ==
    IF xneg = yneg THEN RoundScaled(xneg, BigAdd(x, y), e)
    ELSE IF c = 0 THEN DZero(FALSE)
    ELSE RoundScaled(IF c > 0 THEN xneg ELSE yneg,
                     IF c > 0 THEN BigSub(x, y) ELSE BigSub(y, x), e)

\* a + b for finite non-zero doubles, e the lesser of their exponents.
AddFinite(a, b, e) ==
    AddAligned(a.neg, BigShl(a.m, a.e - e), b.neg, BigShl(b.m, b.e - e),
               BigCmp(BigShl(a.m, a.e - e), BigShl(b.m, b.e - e)), e)

\* a + b on doubles.
DAdd(a, b) ==
    IF a.kind = "nan" \/ b.kind = "nan" THEN DNaN
    ELSE IF a.kind = "inf"
      THEN IF b.kind = "inf" /\ a.neg # b.neg THEN DNaN ELSE DInf(a.neg)
    ELSE IF b.kind = "inf" THEN DInf(b.neg)
    ELSE IF IsZero(a) /\ IsZero(b) THEN DZero(a.neg /\ b.neg)
    ELSE IF IsZero(a) THEN b
    ELSE IF IsZero(b) THEN a
    ELSE AddFinite(a, b, IF a.e < b.e THEN a.e ELSE b.e)

\* a - b on doubles.
DSub(a, b) == DAdd(a, DNeg(b))

\* |a| <= |b|, for a and b not NaN.
MagLeq(a, b) ==
    IF b.kind = "inf" THEN TRUE
    ELSE IF a.kind = "inf" THEN FALSE
    ELSE IF IsZero(a) THEN TRUE
    ELSE IF IsZero(b) THEN FALSE
    ELSE LET e == IF a.e < b.e THEN a.e ELSE b.e
         IN  BigCmp(BigShl(a.m, a.e - e), BigShl(b.m, b.e - e)) <= 0

\* -1, 0 or 1: the sign of a, for a not NaN.
Sign(a) == IF IsZero(a) THEN 0 ELSE IF a.neg THEN -1 ELSE 1

\* a <= b on doubles.
DLeq(a, b) ==
    /\ a.kind # "nan"
    /\ b.kind # "nan"
    /\ IF Sign(a) # Sign(b) THEN Sign(a) < Sign(b)
       ELSE IF Sign(a) = 0 THEN TRUE
       ELSE IF Sign(a) > 0 THEN MagLeq(a, b)
       ELSE MagLeq(b, a)

\* a == b on doubles.
DEq(a, b) == DLeq(a, b) /\ DLeq(b, a)

\* ------------------------------------------------------------------- text

\* isspace() in the C locale: space, \t, \n, \v, \f, \r.  (The vertical tab
\* has no escape in a TLA+ string and stands in its string as the character
\* itself.)
IsSpace(c) == c \in {" ", "\t", "\n", "", "\f", "\r"}

DigitValue ==
    "0" :> 0 @@ "1" :> 1 @@ "2" :> 2 @@ "3" :> 3 @@ "4" :> 4 @@
    "5" :> 5 @@ "6" :> 6 @@ "7" :> 7 @@ "8" :> 8 @@ "9" :> 9

IsDigit(c) == c \in DOMAIN DigitValue

DigitChar == <<"0", "1", "2", "3", "4", "5", "6", "7", "8", "9">>

\* tolower() on the letters that numbers are written with.
LowerOf ==
    "A" :> "a" @@ "B" :> "b" @@ "C" :> "c" @@ "D" :> "d" @@ "E" :> "e" @@
    "F" :> "f" @@ "I" :> "i" @@ "N" :> "n" @@ "P" :> "p" @@ "T" :> "t" @@
    "X" :> "x" @@ "Y" :> "y"

Lower(c) == IF c \in DOMAIN LowerOf THEN LowerOf[c] ELSE c

HexValue ==
    DigitValue @@ "a" :> 10 @@ "b" :> 11 @@ "c" :> 12 @@ "d" :> 13 @@
    "e" :> 14 @@ "f" :> 15

IsHexDigit(c) == Lower(c) \in DOMAIN HexValue

\* The character at position i of s, or "" beyond the end of the input.
At(s, i) == IF i >= 1 /\ i <= Len(s) THEN s[i] ELSE ""

\* The decimal text of a natural number, as the kernel prints it (%d, %llu).
RECURSIVE ToDigits(_)
ToDigits(n) ==
    IF n < 10 THEN <<DigitChar[n + 1]>>
              ELSE ToDigits(n \div 10) \o <<DigitChar[(n % 10) + 1]>>

\* The decimal text of an integer, as the kernel prints it (%ld).
ToText(n) == IF n < 0 THEN <<"-">> \o ToDigits(-n) ELSE ToDigits(n)

\* The first position at or after i that holds no white space (Len(s) + 1 at
\* the end of the input).
RECURSIVE SkipSpace(_, _)
SkipSpace(s, i) ==
    IF i <= Len(s) /\ IsSpace(s[i]) THEN SkipSpace(s, i + 1) ELSE i

\* The first position at or after i that holds white space or is the end.
RECURSIVE SkipWord(_, _)
SkipWord(s, i) ==
    IF i <= Len(s) /\ ~IsSpace(s[i]) THEN SkipWord(s, i + 1) ELSE i

\* The first position at or after i that holds no digit.
RECURSIVE SkipDigits(_, _)
SkipDigits(s, i) ==
    IF i <= Len(s) /\ IsDigit(s[i]) THEN SkipDigits(s, i + 1) ELSE i

\* The first position at or after i that holds no hexadecimal digit.
RECURSIVE SkipHexDigits(_, _)
SkipHexDigits(s, i) ==
    IF i <= Len(s) /\ IsHexDigit(s[i]) THEN SkipHexDigits(s, i + 1) ELSE i

\* The value of the digits s[i..j-1] in the given base, most significant
\* first, continuing from acc.
RECURSIVE DigitsValue(_, _, _, _, _)
DigitsValue(s, i, j, base, acc) ==
    IF i >= j THEN acc
    ELSE DigitsValue(s, i + 1, j, base,
                     BigAdd(BigMulSmall(acc, base), Big(HexValue[Lower(s[i])])))

\* The integer (-1)^neg * mag; zero is not negative.
SInt(neg, mag) == [neg |-> neg /\ mag # <<>>, mag |-> mag]

\* x - n, for the integer x and the natural number n (limbs).
SIntMinus(x, n) ==
    IF x.neg THEN SInt(TRUE, BigAdd(x.mag, n))
    ELSE IF BigCmp(x.mag, n) >= 0 THEN SInt(FALSE, BigSub(x.mag, n))
    ELSE SInt(TRUE, BigSub(n, x.mag))

\* -1, 0 or 1 as the integer x is below, equal to or above the number k.
SIntCmp(x, k) ==
    IF x.neg # (k < 0) THEN (IF x.neg THEN -1 ELSE 1)
    ELSE IF x.neg THEN BigCmp(Big(-k), x.mag)
    ELSE BigCmp(x.mag, Big(k))

\* The number a, of any number of limbs.
RECURSIVE BigToInt(_)
BigToInt(a) == IF a = <<>> THEN 0 ELSE a[1] + LimbBase * BigToInt(Tail(a))

\* The integer x is below k - n, for the number k < 0 and the natural
\* number n (limbs).
SIntBelow(x, k, n) ==
    x.neg /\ BigCmp(x.mag, BigAdd(Big(-k), n)) > 0

\* s holds the word w at position i, in either case of letters.
MatchWord(s, i, w) == \A k \in 1..Len(w) : Lower(At(s, i + k - 1)) = w[k]

\* ----------------------------------------------------------------- fscanf

\* fscanf's return value when the input ends before anything was assigned.
EOF == -1

\* The directives of a format string.
SkipS == [kind |-> "%*s"]
Space == [kind |-> "space"]
Lit(c) == [kind |-> "literal", ch |-> c]
Zu == [kind |-> "%zu"]
Lf == [kind |-> "%lf"]

\* What fscanf returns when it stops: the number of values assigned, or EOF
\* when the input ran out before the first assignment.
InputFailure(count, value) ==
    [count |-> IF count = 0 THEN EOF ELSE count, value |-> value]

MatchFailure(count, value) == [count |-> count, value |-> value]

NoNumber == [ok |-> FALSE, value |-> Zero, end |-> 0]

\* The exponent part at position i of s, after the digits of a number: the
\* letter, an optional sign and decimal digits (none count as 0).
\* [value, end], value an integer of any size.
ScanExponent(s, i, letter) ==
    IF Lower(At(s, i)) # letter THEN [value |-> SInt(FALSE, <<>>), end |-> i]
    ELSE LET b == IF At(s, i + 1) \in {"-", "+"} THEN i + 2 ELSE i + 1
         IN  [value |-> SInt(At(s, i + 1) = "-",
                             DigitsValue(s, b, SkipDigits(s, b), 10, <<>>)),
              end |-> SkipDigits(s, b)]

\* A number digits * 10^scale, digits >= 1, is at least 10^scale and below
\* 10^(scale + k) for digits of k bits: scales above the first give
\* infinity, scales more than k below the second give 0.
MaxDecimalExp == 330
MinDecimalExp == -345

\* The double nearest to (-1)^neg * digits / pow when down, and to
\* (-1)^neg * digits * pow otherwise.
ScaleDecimal(neg, digits, down, pow) ==
    RoundRatio(neg, IF down THEN digits ELSE BigMul(digits, pow),
                    IF down THEN pow ELSE <<1>>)

\* The double nearest to (-1)^neg * digits * 10^scale, digits a natural
\* number and scale an integer, both of any size.
DecimalValue(neg, digits, scale) ==
    IF digits = <<>> THEN DZero(neg)
    ELSE IF SIntCmp(scale, MaxDecimalExp) > 0 THEN DInf(neg)
    ELSE IF SIntBelow(scale, MinDecimalExp, Big(BigBitLen(digits)))
      THEN DZero(neg)
    ELSE ScaleDecimal(neg, digits, scale.neg,
                      BigPow(<<10>>, BigToInt(scale.mag)))

\* A decimal number whose integer digits are s[b..e1-1] and whose fraction
\* digits, nfrac of them, end before e2; exp is the exponent part at e2.
DecimalNumber(s, neg, b, e1, e2, nfrac, exp) ==
    IF (e1 - b) + nfrac = 0 THEN NoNumber
    ELSE [ok |-> TRUE,
          value |-> DecimalValue(neg,
                        DigitsValue(s, e1 + 1, e2, 10,
                                    DigitsValue(s, b, e1, 10, <<>>)),
                        SIntMinus(exp.value, Big(nfrac))),
          end |-> exp.end]

\* A decimal number at position b of s: digits, an optional point and
\* digits, an optional exponent.
ScanDecimal(s, neg, b) ==
    LET e1 == SkipDigits(s, b)
        e2 == IF At(s, e1) = "." THEN SkipDigits(s, e1 + 1) ELSE e1
    IN  DecimalNumber(s, neg, b, e1, e2,
                      IF At(s, e1) = "." THEN e2 - (e1 + 1) ELSE 0,
                      ScanExponent(s, e2, "e"))

\* A number digits * 2^scale, digits >= 1 of k bits, is at least 2^scale
\* and below 2^(scale + k): scales above the first give infinity, scales
\* more than k below the second give 0.
MaxBinaryExp == 1100
MinBinaryExp == -1100

\* The double nearest to (-1)^neg * digits * 2^scale, digits a natural
\* number and scale an integer, both of any size.
HexValueOf(neg, digits, scale) ==
    IF digits = <<>> THEN DZero(neg)
    ELSE IF SIntCmp(scale, MaxBinaryExp) > 0 THEN DInf(neg)
    ELSE IF SIntBelow(scale, MinBinaryExp, Big(BigBitLen(digits)))
      THEN DZero(neg)
    ELSE RoundScaled(neg, digits, IF scale.neg THEN -BigToInt(scale.mag)
                                               ELSE BigToInt(scale.mag))

\* A hexadecimal number whose integer digits are s[b..h1-1] and whose
\* fraction digits, nfrac of them, end before h2; exp is the exponent part
\* at h2.  A point without digits reads as 0; without digits no exponent is
\* read.
HexNumber(s, neg, b, h1, h2, nfrac, exp) ==
    IF (h1 - b) + nfrac = 0
      THEN IF At(s, h1) = "."
             THEN [ok |-> TRUE, value |-> DZero(neg), end |-> h1 + 1]
             ELSE NoNumber
    ELSE [ok |-> TRUE,
          value |-> HexValueOf(neg,
                        DigitsValue(s, h1 + 1, h2, 16,
                                    DigitsValue(s, b, h1, 16, <<>>)),
                        SIntMinus(exp.value, BigMulSmall(Big(nfrac), 4))),
          end |-> exp.end]

\* A hexadecimal number at position b of s, after "0x": digits, an optional
\* point and digits, an optional binary exponent.
ScanHex(s, neg, b) ==
    LET h1 == SkipHexDigits(s, b)
        h2 == IF At(s, h1) = "." THEN SkipHexDigits(s, h1 + 1) ELSE h1
    IN  HexNumber(s, neg, b, h1, h2,
                  IF At(s, h1) = "." THEN h2 - (h1 + 1) ELSE 0,
                  ScanExponent(s, h2, "p"))

\* "nan", "inf" or "infinity" at position b of s, in either case of letters;
\* "inf" followed by "i" must go on to "infinity".
ScanSpecial(s, neg, b) ==
    IF Lower(At(s, b)) = "n"
      THEN IF MatchWord(s, b, <<"n", "a", "n">>)
             THEN [ok |-> TRUE, value |-> DNaN, end |-> b + 3]
             ELSE NoNumber
    ELSE IF ~MatchWord(s, b, <<"i", "n", "f">>) THEN NoNumber
    ELSE IF Lower(At(s, b + 3)) # "i"
      THEN [ok |-> TRUE, value |-> DInf(neg), end |-> b + 3]
    ELSE IF MatchWord(s, b + 3, <<"i", "n", "i", "t", "y">>)
      THEN [ok |-> TRUE, value |-> DInf(neg), end |-> b + 8]
    ELSE NoNumber

\* A number at position b of s, after its sign.
ScanUnsignedDouble(s, neg, b) ==
    IF Lower(At(s, b)) \in {"n", "i"} THEN ScanSpecial(s, neg, b)
    ELSE IF At(s, b) = "0" /\ Lower(At(s, b + 1)) = "x" THEN ScanHex(s, neg, b + 2)
    ELSE ScanDecimal(s, neg, b)

\* "%lf" at position j of s (white space already skipped): an optional sign,
\* then "nan", "inf" or "infinity", a hexadecimal number after "0x", or a
\* decimal number.  [ok, value, end].
ScanDouble(s, j) ==
    ScanUnsignedDouble(s, At(s, j) = "-",
                       IF At(s, j) \in {"-", "+"} THEN j + 1 ELSE j)

\* The digits mag after the sign sgn ("-", "+" or neither) as strtoul gives
\* them to a 64-bit size_t: a value past the largest is the largest, a minus
\* sign negates modulo 2^64.
WrapUnsigned(sgn, mag) ==
    IF BigCmp(mag, UInt64Max) > 0 THEN UInt64Max
    ELSE IF sgn = "-" /\ mag # <<>> THEN BigAdd(BigSub(UInt64Max, mag), <<1>>)
    ELSE mag

\* "%zu" at position j of s (white space already skipped): an optional sign
\* and decimal digits.  [ok, value, end].
ScanUnsigned(s, j) ==
    LET b == IF At(s, j) \in {"-", "+"} THEN j + 1 ELSE j
    IN  [ok |-> SkipDigits(s, b) > b,
         value |-> WrapUnsigned(At(s, j),
                                DigitsValue(s, b, SkipDigits(s, b), 10, <<>>)),
         end |-> SkipDigits(s, b)]

\* What a conversion read: r.ok = FALSE is a matching failure.
Conversion(r, count, value) ==
    IF r.ok THEN [ok |-> TRUE, end |-> r.end, count |-> count + 1, value |-> r.value]
            ELSE [ok |-> FALSE, end |-> r.end, count |-> count, value |-> value]

\* One directive d of a format at position i of s, j the position after the
\* white space at i.  [ok, end, count, value]; when ok is FALSE, count is
\* what fscanf returns.
Directive(d, s, i, j, count, value) ==
    IF d.kind = "space"
      THEN [ok |-> TRUE, end |-> j, count |-> count, value |-> value]
    ELSE IF d.kind = "literal"
      THEN IF i > Len(s)
             THEN [ok |-> FALSE, end |-> i] @@ InputFailure(count, value)
           ELSE IF s[i] = d.ch
             THEN [ok |-> TRUE, end |-> i + 1, count |-> count, value |-> value]
           ELSE [ok |-> FALSE, end |-> i] @@ MatchFailure(count, value)
    ELSE IF j > Len(s)
      THEN [ok |-> FALSE, end |-> j] @@ InputFailure(count, value)
    ELSE IF d.kind = "%*s"
      THEN [ok |-> TRUE, end |-> SkipWord(s, j), count |-> count, value |-> value]
    ELSE IF d.kind = "%zu" THEN Conversion(ScanUnsigned(s, j), count, value)
    ELSE Conversion(ScanDouble(s, j), count, value)

\* The rest of the format after a directive gave r.
RECURSIVE Scan(_, _, _, _, _, _)
ScanNext(fmt, k, s, r) ==
    IF r.ok THEN Scan(fmt, k + 1, s, r.end, r.count, r.value)
            ELSE [count |-> r.count, value |-> r.value]

\* fscanf(file, fmt, &value) from directive k of fmt and position i of the
\* file's text s; count values have been assigned so far.
Scan(fmt, k, s, i, count, value) ==
    IF k > Len(fmt) THEN [count |-> count, value |-> value]
    ELSE ScanNext(fmt, k, s,
                  Directive(fmt[k], s, i, SkipSpace(s, i), count, value))

Fscanf(fmt, s, init) == Scan(fmt, 1, s, 1, 0, init)

\* "%*s (%*s %*s %*s %*s %*s %*s %*s %*s %*s %*s "
\* "%*s %*s %*s %*s %*s %*s %*s %*s %*s %*s %zu"
StatFormat ==
    <<SkipS, Space, Lit("("), SkipS, Space, SkipS, Space, SkipS, Space,
      SkipS, Space, SkipS, Space, SkipS, Space, SkipS, Space, SkipS, Space,
      SkipS, Space, SkipS, Space>>
    \o <<SkipS, Space, SkipS, Space, SkipS, Space, SkipS, Space, SkipS, Space,
         SkipS, Space, SkipS, Space, SkipS, Space, SkipS, Space, SkipS, Space,
         Zu>>

\* "%lf"
UptimeFormat == <<Lf>>

\* ------------------------------------------------- the files under /proc

\* Words joined by single spaces.
RECURSIVE Join(_)
Join(words) ==
    IF Len(words) = 0 THEN <<>>
    ELSE IF Len(words) = 1 THEN words[1]
    ELSE words[1] \o <<" ">> \o Join(Tail(words))

\* The text of /proc/self/stat for a status record: pid, (comm), then the
\* fields from state (field 3) on, each a word of text.
FormatStat(rec) ==
    ToDigits(rec.pid) \o <<" ", "(">> \o rec.comm \o <<")", " ">>
    \o Join(rec.rest) \o <<"\n">>

\* The position of starttime among the fields of a status record.
StartTimeField == 22

\* The starttime (field 22) a status record reports; rest[1] is field 3.
StartTimeOf(rec) ==
    DigitsValue(rec.rest[StartTimeField - 2], 1,
                Len(rec.rest[StartTimeField - 2]) + 1, 10, <<>>)

\* The text of /proc/uptime: uptime and idle time in seconds, two decimals.
FormatUptime(centis) ==
    ToDigits(centis \div 100) \o <<".">> \o <<DigitChar[((centis \div 10) % 10) + 1],
    DigitChar[(centis % 10) + 1]>> \o <<" ">> \o ToDigits(centis \div 200)
    \o <<".", "0", "0", "\n">>

\* A status record of a process named comm, of the given nice value, that
\* started at tick start: state, ppid, pgrp, session, tty_nr, tpgid, flags,
\* minflt, cminflt, majflt, cmajflt, utime, stime, cutime, cstime, priority,
\* nice, num_threads, itrealvalue, starttime, vsize, rss.
StatRecord(comm, nice, start) ==
    [pid |-> 4242, comm |-> comm,
     rest |-> <<<<"S">>, ToText(1), ToText(4242), ToText(4242), ToText(34816),
                ToText(4242), ToText(4194304), ToText(120), ToText(0),
                ToText(3), ToText(0), ToText(7), ToText(2), ToText(0),
                ToText(0), ToText(20 + nice), ToText(nice), ToText(1),
                ToText(0), ToText(start), ToText(2500000), ToText(300)>>]

\* Process names: plain, with parentheses, with a space, with a carriage
\* return.
Comms == {<<"a">>, <<"(", "a", ")">>, <<"a", " ", "b">>, <<"a", "\r", "b">>}

\* A process name with three spaces: the directive %zu meets field 19, nice.
SpacedComm == <<"a", " ", "b", " ", "c", " ", "d">>

\* Start ticks since boot.
StartTicks == {0, 10, 500}

StatRecords ==
    {StatRecord(c, 0, s) : c \in Comms, s \in StartTicks}
    \cup {StatRecord(SpacedComm, -5, 500)}

\* What a read of /proc/self/stat finds: the record, a record cut short, or
\* text that is no status record.
StatFaults == {"none", "truncated", "garbled"}

StatText(rec, fault) ==
    CASE fault = "none" -> FormatStat(rec)
      [] fault = "truncated" -> FormatStat([rec EXCEPT !.rest = SubSeq(@, 1, 5)])
      [] fault = "garbled" -> ToDigits(rec.pid) \o <<" ">> \o rec.comm \o <<"\n">>

\* Kernel uptime, in hundredths of a second.
Uptimes == {30, 1000, 1250}

\* What a read of /proc/uptime finds.
UptimeFaults == {"none", "empty", "garbled"}

UptimeText(centis, fault) ==
    CASE fault = "none" -> FormatUptime(centis)
      [] fault = "empty" -> <<>>
      [] fault = "garbled" -> <<"u", "p", "\n">>

\* sysconf(_SC_CLK_TCK): the ticks per second, or -1 when the query fails.
ClkTcks == {-1, 100, 250}

\* ------------------------------------------------------ FILETIME, timeval

\* Bits of a DWORD, the type of the two halves of a FILETIME.
DWordBits == 32

\* ULARGE_INTEGER.QuadPart of LowPart and HighPart.
QuadPart(li) == BigAdd(BigShl(li.HighPart, DWordBits), li.LowPart)

FileTime(low, high) == [dwLowDateTime |-> low, dwHighDateTime |-> high]

\* The FILETIME of q 100-nanosecond intervals since the epoch.
FileTimeOf(q) == FileTime(BigLowBits(q, DWordBits), BigShr(q, DWordBits))

\* The 64-bit value of a FILETIME, through a ULARGE_INTEGER as the code
\* converts it.
FileTimeQuad(ft) ==
    QuadPart([LowPart |-> ft.dwLowDateTime, HighPart |-> ft.dwHighDateTime])

\* A FILETIME of these days: 133 * 10^15 intervals since 1601.
RecentFileTime == BigMul(Big(133), BigPow(Big(10), 15))

\* 100-nanosecond intervals since the epoch: 10 s, 10.1 s, 15 s and 15.4 s,
\* and a recent time with 0, 1 and 10 intervals more.
FileTimes ==
    {FileTimeOf(Big(q)) : q \in {100000000, 101000000, 150000000, 154000000}}
    \cup {FileTimeOf(BigAdd(RecentFileTime, Big(k))) : k \in {0, 1, 10}}

Timeval(sec, usec) == [tv_sec |-> sec, tv_usec |-> usec]

\* struct timeval x = {}
ZeroTimeval == Timeval(<<>>, 0)

Timevals ==
    {Timeval(Big(s), u) : s \in {1700000010, 1700000011, 1700000012},
                          u \in {0, 250000, 900000}}

\* a is not later than b.
TimevalLeq(a, b) ==
    \/ BigCmp(a.tv_sec, b.tv_sec) < 0
    \/ a.tv_sec = b.tv_sec /\ a.tv_usec <= b.tv_usec

\* proc_pidinfo's return value: the bytes written, 0 or -1 on failure.
PidinfoResults == {-1, 0, 136}

\* gettimeofday's return value.
GettimeofdayResults == {0, -1}

Platforms == {"win32", "linux", "macos", "other"}

\* -------------------------------------------------------------- the state

VARIABLES
    platform,       \* the branch of the #if chain that is compiled
    logErrors,      \* FALSE when GTSPS_DONT_LOG_ERRORS is defined
    procStat,       \* the status record behind /proc/self/stat
    uptime,         \* kernel uptime, hundredths of a second
    clkTck,         \* what sysconf(_SC_CLK_TCK) returns
    creationTime,   \* the FILETIME GetProcessTimes reports
    systemTime,     \* the FILETIME GetSystemTimeAsFileTime reports
    bsdStart,       \* pbi_start_tvsec, pbi_start_tvusec
    timeOfDay,      \* the timeval gettimeofday reports
    pc,             \* the position of the call
    startTime,      \* startTime / processStartTimeInSeconds (a double)
    startTv,        \* struct timeval startTime
    decoded,        \* int decoded, of the fscanf of /proc/self/stat
    decodedStart,   \* uint64_t startTime
    clockTicksPerSecond, \* the divisor of the tick conversion
    ret,            \* the value returned
    diag,           \* the messages given to GTSPS_LOG_ERROR by the call
    opened,         \* fopen calls of the call that returned a FILE
    closed,         \* fclose calls of the call
    events,         \* the OS queries of the call, in order
    failed,         \* the OS queries of the call that failed
    startRead,      \* seconds the creation-time probe of the call read
    nowRead,        \* seconds the current-time probe of the call read
    sysRead,        \* the raw FILETIME the current-time probe read
    nowTv,          \* struct timeval currentTime
    calls,          \* calls begun
    prev            \* what the previous call read and returned

cfgVars == <<platform, logErrors>>
envVars == <<procStat, uptime, clkTck, creationTime, systemTime, bsdStart, timeOfDay>>
localVars == <<startTime, startTv, decoded, decodedStart, clockTicksPerSecond>>
handleVars == <<opened, closed>>
readVars == <<startRead, nowRead, sysRead, nowTv>>
histVars == <<calls, prev>>
vars == <<cfgVars, envVars, localVars, handleVars, readVars, histVars,
          pc, ret, diag, events, failed>>

NoCall == [valid |-> FALSE, ok |-> FALSE, ret |-> Zero, now |-> Zero,
           start |-> Zero, sys |-> FileTime(<<>>, <<>>), nowTv |-> ZeroTimeval,
           startTv |-> ZeroTimeval, events |-> <<>>]

Init ==
    /\ platform \in Platforms
    /\ logErrors \in BOOLEAN
    /\ IF platform = "linux"
         THEN procStat \in StatRecords /\ uptime \in Uptimes /\ clkTck \in ClkTcks
         ELSE procStat = StatRecord(<<"a">>, 0, 500) /\ uptime = 1000 /\ clkTck = 100
    /\ IF platform = "win32"
         THEN creationTime \in FileTimes /\ systemTime \in FileTimes
         ELSE creationTime = FileTimeOf(Big(100000000))
              /\ systemTime = FileTimeOf(Big(150000000))
    /\ IF platform = "macos"
         THEN bsdStart \in Timevals /\ timeOfDay \in Timevals
         ELSE bsdStart = Timeval(Big(1700000010), 0)
              /\ timeOfDay = Timeval(Big(1700000012), 0)
    /\ pc = "idle"
    /\ startTime = Zero
    /\ startTv = ZeroTimeval
    /\ decoded = 0
    /\ decodedStart = <<>>
    /\ clockTicksPerSecond = Zero
    /\ ret = Zero
    /\ diag = <<>>
    /\ opened = 0
    /\ closed = 0
    /\ events = <<>>
    /\ failed = {}
    /\ startRead = Zero
    /\ nowRead = Zero
    /\ sysRead = FileTime(<<>>, <<>>)
    /\ nowTv = ZeroTimeval
    /\ calls = 0
    /\ prev = NoCall

\* ------------------------------------------------- the pieces of the call

\* GTSPS_LOG_ERROR(str): fprintf(stderr, str), or nothing when
\* GTSPS_DONT_LOG_ERRORS is defined.
LogError(log, str) == IF logErrors THEN Append(log, str) ELSE log

\* The 100-ns intervals in a second.
HundredNsPerSecond == 10000000

\* A conversion that takes the intervals for microseconds.
FileTimeToSeconds_micro(ft) ==
    DDiv(DFromBig(FileTimeQuad(ft)), ToDouble(1000000))

\* (double)converter.QuadPart / 10000000.0
FileTimeToSeconds(ft) ==
    DDiv(DFromBig(FileTimeQuad(ft)), ToDouble(HundredNsPerSecond))

\* (double)startTime / clockTicksPerSecond
TicksToSeconds(ticks, ticksPerSecond) == DDiv(DFromBig(ticks), ticksPerSecond)

\* A failure test that also takes a decoded zero for a failure.
StatDecodeFailed_zeroFails(count, value) == count # 1 \/ value = <<>>

\* if (decoded != 1), after the fscanf of /proc/self/stat.
StatDecodeFailed(count, value) == count # 1

\* if (decoded != 1), after the fscanf of /proc/uptime.
UptimeDecodeFailed(count) == count # 1

\* An fclose placed after the early return of a failed decode.
CloseAfterScan_leak(nclosed, count) ==
    IF count = 1 THEN nclosed + 1 ELSE nclosed

\* fclose(file), which follows fscanf whatever it decoded.
CloseAfterScan(nclosed, count) == nclosed + 1

\* The difference with its operands exchanged.
Elapsed_swapped(current, start) == DSub(start, current)

\* currentTime - startTime, kernelUpTimeInSeconds - processStartTimeInSeconds
Elapsed(current, start) == DSub(current, start)

\* The microseconds in a second.
UsecPerSecond == 1000000

\* (double)(currentTime.tv_sec - startTime.tv_sec)
SecondsBetween(current, start) ==
    IF BigCmp(current.tv_sec, start.tv_sec) >= 0
      THEN RoundRatio(FALSE, BigSub(current.tv_sec, start.tv_sec), <<1>>)
      ELSE RoundRatio(TRUE, BigSub(start.tv_sec, current.tv_sec), <<1>>)

\* (double)(currentTime.tv_sec - startTime.tv_sec)
\*   + (double)(currentTime.tv_usec - startTime.tv_usec) / 1000000.0
TimevalElapsed(current, start) ==
    DAdd(SecondsBetween(current, start),
         DDiv(ToDouble(current.tv_usec - start.tv_usec),
              ToDouble(UsecPerSecond)))

\* Where the call goes when its creation-time probe failed: return 0.0, not
\* on to the current-time probe at nextProbe.
AfterCreationFailure(nextProbe) == "done"

\* The first step of the call on each platform.
Entry(p) ==
    CASE p = "win32" -> "GetProcessTimes"
      [] p = "linux" -> "fopen_stat"
      [] p = "macos" -> "proc_pidinfo"
      [] OTHER -> "done"

\* The call has returned with every query it made answered.
Succeeded == pc = "done" /\ failed = {} /\ platform # "other"

\* ------------------------------------------------------------ the actions

\* A call of GetTimeSinceProcessStart begins; on an unsupported platform the
\* whole body is return 0.0.
Call ==
    /\ pc \in {"idle", "done"}
    /\ calls < MaxCalls
    /\ calls' = calls + 1
    /\ prev' = IF pc = "done"
                 THEN [valid |-> TRUE, ok |-> Succeeded, ret |-> ret,
                       now |-> nowRead, start |-> startRead, sys |-> sysRead,
                       nowTv |-> nowTv, startTv |-> startTv, events |-> events]
                 ELSE prev
    /\ pc' = Entry(platform)
    /\ startTime' = Zero
    /\ startTv' = ZeroTimeval
    /\ decoded' = 0
    /\ decodedStart' = <<>>
    /\ clockTicksPerSecond' = Zero
    /\ ret' = Zero
    /\ diag' = <<>>
    /\ opened' = 0
    /\ closed' = 0
    /\ events' = <<>>
    /\ failed' = {}
    /\ startRead' = Zero
    /\ nowRead' = Zero
    /\ sysRead' = FileTime(<<>>, <<>>)
    /\ nowTv' = ZeroTimeval
    /\ UNCHANGED <<cfgVars, envVars>>

\* Windows: GetProcessTimes and the conversion of creationTime.
WinGetProcessTimes ==
    /\ pc = "GetProcessTimes"
    /\ \E ok \in BOOLEAN :
         /\ events' = Append(events, "GetProcessTimes")
         /\ IF ok
              THEN /\ startTime' = FileTimeToSeconds(creationTime)
                   /\ startRead' = startTime'
                   /\ pc' = "GetSystemTimeAsFileTime"
                   /\ UNCHANGED <<ret, diag, failed>>
              ELSE /\ failed' = failed \cup {"GetProcessTimes"}
                   /\ diag' = LogError(diag, "Error: Failed to call GetProcessTimes\n")
                   /\ ret' = Zero
                   /\ pc' = AfterCreationFailure("GetSystemTimeAsFileTime")
                   /\ UNCHANGED <<startTime, startRead>>
    /\ UNCHANGED <<cfgVars, envVars, startTv, decoded, decodedStart, clockTicksPerSecond,
                   handleVars, nowRead, sysRead, nowTv, histVars>>

\* Windows: GetSystemTimeAsFileTime, its conversion, and the difference.
WinGetSystemTime ==
    /\ pc = "GetSystemTimeAsFileTime"
    /\ events' = Append(events, "GetSystemTimeAsFileTime")
    /\ sysRead' = systemTime
    /\ nowRead' = FileTimeToSeconds(systemTime)
    /\ ret' = Elapsed(nowRead', startTime)
    /\ pc' = "done"
    /\ UNCHANGED <<cfgVars, envVars, localVars, handleVars, startRead, nowTv,
                   histVars, diag, failed>>

\* Linux: fopen("/proc/self/stat", "r").
LinuxOpenStat ==
    /\ pc = "fopen_stat"
    /\ \E ok \in BOOLEAN :
         /\ events' = Append(events, "fopen /proc/self/stat")
         /\ IF ok
              THEN /\ opened' = opened + 1
                   /\ pc' = "fscanf_stat"
                   /\ UNCHANGED <<ret, diag, failed>>
              ELSE /\ failed' = failed \cup {"fopen /proc/self/stat"}
                   /\ diag' = LogError(diag, "Error: Failed to open /proc/self/stat.\n")
                   /\ ret' = Zero
                   /\ pc' = AfterCreationFailure("fopen_uptime")
                   /\ UNCHANGED opened
    /\ UNCHANGED <<cfgVars, envVars, localVars, closed, readVars, histVars>>

\* Linux: fscanf of the status record, fclose, and on success sysconf and
\* the conversion of the start tick to seconds.
LinuxScanStat ==
    /\ pc = "fscanf_stat"
    /\ \E fault \in StatFaults :
         \E r \in {Fscanf(StatFormat, StatText(procStat, fault), <<>>)} :
             /\ decoded' = r.count
             /\ decodedStart' = r.value
             /\ closed' = CloseAfterScan(closed, r.count)
             /\ IF StatDecodeFailed(r.count, r.value)
                  THEN /\ events' = events \o <<"fscanf /proc/self/stat", "fclose">>
                       /\ failed' = failed \cup {"fscanf /proc/self/stat"}
                       /\ diag' = LogError(diag, "Error: Failed decoding /proc/self/stat.\n")
                       /\ ret' = Zero
                       /\ pc' = AfterCreationFailure("fopen_uptime")
                       /\ UNCHANGED <<clockTicksPerSecond, startTime, startRead>>
                  ELSE /\ events' = events \o <<"fscanf /proc/self/stat", "fclose",
                                                "sysconf">>
                       /\ failed' = IF clkTck = -1 THEN failed \cup {"sysconf"}
                                                   ELSE failed
                       /\ clockTicksPerSecond' = ToDouble(clkTck)
                       /\ startTime' = TicksToSeconds(r.value, clockTicksPerSecond')
                       /\ startRead' = startTime'
                       /\ pc' = "fopen_uptime"
                       /\ UNCHANGED <<ret, diag>>
    /\ UNCHANGED <<cfgVars, envVars, startTv, opened, nowRead, sysRead, nowTv,
                   histVars>>

\* Linux: fopen("/proc/uptime", "r").
LinuxOpenUptime ==
    /\ pc = "fopen_uptime"
    /\ \E ok \in BOOLEAN :
         /\ events' = Append(events, "fopen /proc/uptime")
         /\ IF ok
              THEN /\ opened' = opened + 1
                   /\ pc' = "fscanf_uptime"
                   /\ UNCHANGED <<ret, diag, failed>>
              ELSE /\ failed' = failed \cup {"fopen /proc/uptime"}
                   /\ diag' = LogError(diag, "Error: Failed to open /proc/uptime.\n")
                   /\ ret' = Zero
                   /\ pc' = "done"
                   /\ UNCHANGED opened
    /\ UNCHANGED <<cfgVars, envVars, localVars, closed, readVars, histVars>>

\* Linux: fscanf of the uptime, fclose, and the difference.
LinuxScanUptime ==
    /\ pc = "fscanf_uptime"
    /\ \E fault \in UptimeFaults :
         \E r \in {Fscanf(UptimeFormat, UptimeText(uptime, fault), Zero)} :
             /\ events' = events \o <<"fscanf /proc/uptime", "fclose">>
             /\ closed' = CloseAfterScan(closed, r.count)
             /\ pc' = "done"
             /\ IF UptimeDecodeFailed(r.count)
                  THEN /\ failed' = failed \cup {"fscanf /proc/uptime"}
                       /\ diag' = LogError(diag, "Error: Failed decoding /proc/uptime.\n")
                       /\ ret' = Zero
                       /\ UNCHANGED nowRead
                  ELSE /\ nowRead' = r.value
                       /\ ret' = Elapsed(nowRead', startTime)
                       /\ UNCHANGED <<diag, failed>>
    /\ UNCHANGED <<cfgVars, envVars, localVars, opened, startRead, sysRead, nowTv,
                   histVars>>

\* macOS: proc_pidinfo(pid, PROC_PIDTBSDINFO, ...).
MacProcPidinfo ==
    /\ pc = "proc_pidinfo"
    /\ \E rc \in PidinfoResults :
         /\ events' = Append(events, "proc_pidinfo")
         /\ IF rc <= 0
              THEN /\ failed' = failed \cup {"proc_pidinfo"}
                   /\ diag' = LogError(diag, "Error: proc_pidinfo failed")
                   /\ ret' = Zero
                   /\ pc' = AfterCreationFailure("gettimeofday")
                   /\ UNCHANGED startTv
              ELSE /\ startTv' = bsdStart
                   /\ pc' = "gettimeofday"
                   /\ UNCHANGED <<ret, diag, failed>>
    /\ UNCHANGED <<cfgVars, envVars, startTime, decoded, decodedStart, clockTicksPerSecond,
                   handleVars, readVars, histVars>>

\* macOS: gettimeofday(&currentTime, NULL), whose result is not looked at,
\* and the difference; a failed gettimeofday leaves currentTime = {}.
MacGetTimeOfDay ==
    /\ pc = "gettimeofday"
    /\ \E rc \in GettimeofdayResults :
         /\ events' = Append(events, "gettimeofday")
         /\ failed' = IF rc = 0 THEN failed ELSE failed \cup {"gettimeofday"}
         /\ nowTv' = IF rc = 0 THEN timeOfDay ELSE ZeroTimeval
         /\ ret' = TimevalElapsed(nowTv', startTv)
         /\ pc' = "done"
    /\ UNCHANGED <<cfgVars, envVars, localVars, handleVars, startRead, nowRead,
                   sysRead, histVars, diag>>

\* The kernel's uptime counter advances.
UptimeTick ==
    /\ platform = "linux"
    /\ \E u \in Uptimes : u > uptime /\ uptime' = u
    /\ UNCHANGED <<cfgVars, procStat, clkTck, creationTime, systemTime, bsdStart,
                   timeOfDay, localVars, handleVars, readVars, histVars,
                   pc, ret, diag, events, failed>>

\* The Windows wall clock advances or is set.
WinClockChange ==
    /\ platform = "win32"
    /\ \E ft \in FileTimes : ft # systemTime /\ systemTime' = ft
    /\ UNCHANGED <<cfgVars, procStat, uptime, clkTck, creationTime, bsdStart,
                   timeOfDay, localVars, handleVars, readVars, histVars,
                   pc, ret, diag, events, failed>>

\* The macOS wall clock advances or is set.
MacClockChange ==
    /\ platform = "macos"
    /\ \E tv \in Timevals : tv # timeOfDay /\ timeOfDay' = tv
    /\ UNCHANGED <<cfgVars, procStat, uptime, clkTck, creationTime, systemTime,
                   bsdStart, localVars, handleVars, readVars, histVars,
                   pc, ret, diag, events, failed>>

Next ==
    \/ Call
    \/ WinGetProcessTimes
    \/ WinGetSystemTime
    \/ LinuxOpenStat
    \/ LinuxScanStat
    \/ LinuxOpenUptime
    \/ LinuxScanUptime
    \/ MacProcPidinfo
    \/ MacGetTimeOfDay
    \/ UptimeTick
    \/ WinClockChange
    \/ MacClockChange

Spec == Init /\ [][Next]_vars

\* ------------------------------------------------------------- the claims

\* The OS queries of the creation-time probes.
CreationQueries ==
    {"GetProcessTimes", "fopen /proc/self/stat", "fscanf /proc/self/stat",
     "sysconf", "proc_pidinfo"}

\* The OS queries of the current-time probes.
CurrentQueries ==
    {"GetSystemTimeAsFileTime", "fopen /proc/uptime", "fscanf /proc/uptime",
     "gettimeofday"}

Made(queries) == {events[i] : i \in DOMAIN events} \cap queries # {}

CreationFailed == failed \cap CreationQueries # {}

\* The status record could not be opened or decoded.
StatFailed ==
    failed \cap {"fopen /proc/self/stat", "fscanf /proc/self/stat"} # {}

OneDiagnostic == Len(diag) = IF logErrors THEN 1 ELSE 0

\* The current time the call read is not earlier than the creation time of
\* the process, in the clock domain of the platform: seconds since boot
\* (the starttime of the status record at the ticks per second of the
\* system), FILETIME intervals, or seconds and microseconds.
ReadInOrder ==
    CASE platform = "linux" ->
           /\ clkTck > 0
           /\ DLeq(TicksToSeconds(StartTimeOf(procStat), ToDouble(clkTck)),
                   nowRead)
      [] platform = "win32" ->
           BigCmp(FileTimeQuad(creationTime), FileTimeQuad(sysRead)) <= 0
      [] platform = "macos" -> TimevalLeq(startTv, nowTv)
      [] OTHER -> FALSE

\* The current time the call read is not earlier than the one the previous
\* call read.
SourceNotDecreased ==
    CASE platform = "linux" -> DLeq(prev.now, nowRead)
      [] platform = "win32" ->
           BigCmp(FileTimeQuad(prev.sys), FileTimeQuad(sysRead)) <= 0
      [] platform = "macos" -> TimevalLeq(prev.nowTv, nowTv)
      [] OTHER -> FALSE

\* The double nearest to (n - c) / 10,000,000.
NearestSeconds(n, c) ==
    IF BigCmp(n, c) >= 0
      THEN RoundRatio(FALSE, BigSub(n, c), Big(HundredNsPerSecond))
      ELSE RoundRatio(TRUE, BigSub(c, n), Big(HundredNsPerSecond))

\* |x - y| for the integers of magnitudes x and y, negative when xneg, yneg.
AbsDiff(xneg, x, yneg, y) ==
    IF xneg # yneg THEN BigAdd(x, y)
    ELSE IF BigCmp(x, y) >= 0 THEN BigSub(x, y)
    ELSE BigSub(y, x)

\* The finite double d is within (n + c) * 2^-51 / 10,000,000 of
\* (n - c) / 10,000,000: with d = m * 2^e and k = max(0, -e),
\* |m * 2^(e+k) * 10,000,000 - (n - c) * 2^k| * 2^51 <= (n + c) * 2^k.
WithinRounding(d, n, c) ==
    LET k == IF d.e < 0 THEN -d.e ELSE 0
        scaled == BigShl(BigMul(d.m, Big(HundredNsPerSecond)), d.e + k)
        gap == AbsDiff(d.neg, scaled, BigCmp(n, c) < 0,
                       BigShl(AbsDiff(FALSE, n, FALSE, c), k))
    IN  /\ d.kind = "finite"
        /\ BigCmp(BigShl(gap, MantissaBits - 2), BigShl(BigAdd(n, c), k)) <= 0

\* C1: a call in which an OS query of either probe failed returns 0.0 and
\* has emitted exactly one diagnostic (none when logging is disabled).
C1_ErrorFallback ==
    (pc = "done" /\ failed # {}) => (ret = Zero /\ OneDiagnostic)

\* C2: once a query of the creation-time probe of a call has failed (the
\* ticks-per-second query included), the call has returned 0.0 with its
\* diagnostic and has made no current-time query.
C2_NoCurrentProbeAfterCreationFailure ==
    CreationFailed =>
        /\ pc = "done"
        /\ ret = Zero
        /\ OneDiagnostic
        /\ ~Made(CurrentQueries)

\* C3: when the call returns, it has closed as many file handles as it
\* opened, and it never holds more than one.
C3_HandlesClosed ==
    /\ closed <= opened
    /\ opened - closed <= 1
    /\ pc = "done" => opened = closed

C3_Witness ==
    /\ platform = "linux"
    /\ pc = "done"
    /\ opened = 2
    /\ closed = 2
    /\ "fscanf /proc/uptime" \in failed

\* C4: a call whose probes both succeeded, and whose current time read is
\* not earlier than the creation time of the process, returns a value
\* >= 0.0.
C4_NonNegative == (Succeeded /\ ReadInOrder) => DLeq(Zero, ret)

\* C5: on the tick-based strategy a call whose probes both succeeded returns
\* U - T/H in double arithmetic, for the uptime U read, the record's
\* start-time field T and the ticks per second H > 0; T = 500, H = 100 and
\* U = 10.0 give 5.0.
C5_TickElapsed ==
    (platform = "linux" /\ Succeeded) =>
        /\ clkTck > 0
        /\ ret = DSub(nowRead, DDiv(DFromBig(StartTimeOf(procStat)),
                                    ToDouble(clkTck)))
        /\ (StartTimeOf(procStat) = Big(500) /\ clkTck = 100
              /\ nowRead = ToDouble(10)) => ret = ToDouble(5)

\* C6 as stated: on the accounting-timestamp strategy a call whose creation
\* query succeeded returns (N - C) / 10,000,000, as the double nearest to
\* it, for the raw current value N and the raw creation value C.
C6_FileTimeElapsed ==
    (platform = "win32" /\ pc = "done" /\ "GetProcessTimes" \notin failed) =>
        ret = NearestSeconds(FileTimeQuad(sysRead), FileTimeQuad(creationTime))

\* C6 amended: such a call returns the difference of the two quotients
\* (double)N / 10000000.0 and (double)C / 10000000.0, every step rounded to
\* a double; the value is within (N + C) * 2^-51 / 10,000,000 seconds of
\* (N - C) / 10,000,000, and is exactly 5.0 for C = 100000000 and
\* N = 150000000.
C6_FileTimeElapsedRounded ==
    (platform = "win32" /\ pc = "done" /\ "GetProcessTimes" \notin failed) =>
        /\ ret = DSub(DDiv(DFromBig(FileTimeQuad(sysRead)),
                           ToDouble(HundredNsPerSecond)),
                      DDiv(DFromBig(FileTimeQuad(creationTime)),
                           ToDouble(HundredNsPerSecond)))
        /\ WithinRounding(ret, FileTimeQuad(sysRead), FileTimeQuad(creationTime))
        /\ (creationTime = FileTimeOf(Big(100000000))
              /\ sysRead = FileTimeOf(Big(150000000))) => ret = ToDouble(5)

\* Ten intervals (1 microsecond) after a recent creation time: the call
\* returns 2^-19 s, about 1.9 microseconds.
C6_Witness ==
    /\ platform = "win32"
    /\ pc = "done"
    /\ failed = {}
    /\ creationTime = FileTimeOf(RecentFileTime)
    /\ sysRead = FileTimeOf(BigAdd(RecentFileTime, Big(10)))
    /\ ret = RoundScaled(FALSE, <<1>>, -19)

\* diagnostic that names the failure.
C8_ZeroStartNotFailure ==
    platform = "linux" =>
        /\ (decoded = 1 /\ decodedStart = <<>>) =>
              /\ ~StatFailed
              /\ pc \in {"fopen_uptime", "fscanf_uptime", "done"}
              /\ pc = "done" => Made({"fopen /proc/uptime"})
              /\ pc # "done" => diag = <<>>
              /\ (pc = "done" /\ failed \cap CurrentQueries = {}) =>
                    (ret = nowRead /\ diag = <<>>)
        /\ (pc = "done" /\ calls > 0 /\ ~Made(CurrentQueries)) =>
              /\ ret = Zero
              /\ OneDiagnostic
              /\ \/ /\ failed = {"fopen /proc/self/stat"}
                    /\ ~Made({"fscanf /proc/self/stat"})
                    /\ logErrors => diag = <<"Error: Failed to open /proc/self/stat.\n">>
                 \/ /\ failed = {"fscanf /proc/self/stat"}
                    /\ decoded # 1
                    /\ logErrors => diag = <<"Error: Failed decoding /proc/self/stat.\n">>
        /\ (Made({"fscanf /proc/self/stat"}) /\ decoded # 1) => StatFailed

C8_Witness ==
    /\ platform = "linux"
    /\ pc = "done"
    /\ decoded = 1
    /\ decodedStart = <<>>
    /\ StartTimeOf(procStat) = <<>>
    /\ failed = {}
    /\ diag = <<>>
    /\ ret = nowRead
    /\ ret = ToDouble(10)

\* C9: on the tick-based strategy a decode that succeeds (count 1) has
\* decoded the record's 22nd field, starttime, whatever the process name.
C9_DecodesStartTimeField ==
    (platform = "linux" /\ decoded = 1) => decodedStart = StartTimeOf(procStat)

\* C10: on the tick-based strategy the ticks-per-second value that divides
\* the decoded start tick is strictly positive.
C10_PositiveDivisor ==
    Made({"sysconf"}) =>
        (clockTicksPerSecond.kind # "nan" /\ Sign(clockTicksPerSecond) > 0)

====
